---- MODULE Spec2Model ----
(***************************************************************************)
(* A model of the Telegram search-and-deletion tool:                       *)
(*   - telegram_deleter.py : TelegramDeleter (delete_message,              *)
(*     delete_messages_batch, main)                                        *)
(*   - auto_delete_old.py  : auto_delete_old_messages,                     *)
(*     api_only_delete_messages                                            *)
(*   - json_analyzer.py    : TelegramJSONAnalyzer                          *)
(*   - config.py           : Config                                        *)
(* Spec       : one deleter object driven through its entry points.        *)
(* SpecFair   : Spec with a control flow that goes on while it can.        *)
(* SpecDirect : delete_messages_batch called directly, more than once.     *)
(* SpecExport : the export path's extraction and selection pipeline.       *)
(* SpecMatch  : one text put to the keyword matchers of both paths.        *)
(***************************************************************************)
EXTENDS Integers, Sequences, FiniteSets, TLC

(***************************************************************************)
(* Bounds of the model.                                                    *)
(***************************************************************************)
\* Largest number of rows of a candidate DataFrame.
MaxRows == 3
\* Largest batch_size / --batch-size a caller passes.
MaxBatch == 2
\* Largest number of delete_messages_batch calls on one deleter object.
MaxCalls == 2
\* Largest number of failing answers the remote service gives in one run
\* through an entry point (Spec).
MaxFaults == 2
\* Largest number of failing answers the remote service gives to one deleter
\* object whose delete_messages_batch is called directly (SpecDirect).
MaxDirectFaults == 1
\* Largest number of messages of an export document (SpecExport).
MaxMsgs == 2
\* Largest number of characters of a keyword and of a text, and largest
\* number of keywords (SpecMatch).
MaxKeywordLen == 2
MaxTextLen == 3
MaxKeywords == 2
MaxIdentifierLen == 2
MaxNameLen == 2
MaxDialogs == 2
MaxTicks == 1

\* (chat_id, chat_name) pairs of the candidate rows.
ChatKeys == {<<1, "A">>, <<2, "B">>}
\* message_id values of the candidate rows.
MsgIds == {1, 2, 3}
\* e.seconds of a FloodWaitError.
FloodWaits == {5}
\* delay_between_batches / --delay values a caller passes.
Delays == {0, 2}

\* message dates of an export document, in hours.
Dates == {0, 1}

(***************************************************************************)
(* Program constants (config.py, auto_delete_old.py).                      *)
(***************************************************************************)
BATCH_SIZE == 100
DELAY_BETWEEN_BATCHES == 2
DRY_RUN == TRUE
HOURS_TO_KEEP == 24

VARIABLES
    entry,                  \* which entry point drives the deleter
    config,                 \* the credentials Config holds (a set of names)
    execute,                \* main: args.execute (--execute given)
    confirm,                \* main: the user answered "yes" at the prompt
    arg_batch_size,         \* main: args.batch_size; direct call: batch_size
    arg_delay,              \* main: args.delay; direct call: delay_between_batches
    candidates,             \* the rows the entry point has to delete
    pc,                     \* position of the single control flow
    messages_df,            \* delete_messages_batch: parameter
    dry_run,                \* delete_messages_batch: parameter
    batch_size,             \* delete_messages_batch: parameter
    delay_between_batches,  \* delete_messages_batch: parameter
    stats,                  \* self.stats
    chat_groups,            \* the groups of messages_df.groupby
    processed_chats,        \* index of the group being processed
    message_ids,            \* ids of the current chat
    i,                      \* loop variable of range(0, len(message_ids), batch_size)
    batch,                  \* message_ids[i:i + batch_size]
    j,                      \* index in batch of the next msg_id
    fault_budget,           \* failing answers the remote service may still give
    deleted_count,          \* api_only_delete_messages: local counter
    failed_count,           \* api_only_delete_messages: local counter
    history,                \* history: the delete_messages_batch calls made
    batches,                \* history: the batches formed in the current call
    trace                   \* history: remote calls, sleeps, log records and
                            \* attempts of the run (direct calls: of the call)

deleterVars == <<entry, config, execute, confirm, arg_batch_size, arg_delay, candidates,
                 pc, messages_df, dry_run, batch_size, delay_between_batches,
                 stats, chat_groups, processed_chats, message_ids, i, batch, j,
                 fault_budget, deleted_count, failed_count, history, batches,
                 trace>>

VARIABLES
    data,                   \* analyzer.data: the loaded export document
    keywords,               \* KEYWORDS
    case_sensitive,         \* CASE_SENSITIVE
    whole_words,            \* WHOLE_WORDS
    clock,                  \* what datetime.now() returns
    xpc,                    \* position of auto_delete_old_messages before the deleter
    all_messages,           \* analyzer.messages_df
    cutoff_time,            \* cutoff_time
    old_messages,           \* old_messages
    keyword_matches,        \* keyword_matches
    apc,                    \* position of the search of api_only_delete_messages
    api_cutoff,             \* api_only_delete_messages: cutoff_time
    scan,                   \* api_only_delete_messages: the message the search is at
    messages_to_delete,     \* api_only_delete_messages: messages_to_delete
    cutoffs                 \* history: the cutoffs computed and compared with

apiSelVars == <<apc, api_cutoff, scan, messages_to_delete>>

exportVars == <<data, keywords, case_sensitive, whole_words, clock, xpc,
                all_messages, cutoff_time, old_messages, keyword_matches,
                apiSelVars, cutoffs>>

VARIABLES
    msg_text,               \* the text of one message put to both matchers
    found_export,           \* find_messages_by_keywords selected the message
    found_api,              \* api_only_delete_messages: keyword_found
    matched_keywords,       \* match_data['matched_keywords'] of the message
    mpc                     \* which matchers have run

matchVars == <<msg_text, found_export, found_api, matched_keywords, mpc>>

VARIABLES
    chat_identifier,        \* find_chat_by_name_or_id: parameter
    dialogs,                \* the names of the dialogs client.get_dialogs() lists
    found_chat,             \* what find_chat_by_name_or_id returned
    rpc                     \* whether find_chat_by_name_or_id has been called

resolveVars == <<chat_identifier, dialogs, found_chat, rpc>>

vars == <<deleterVars, exportVars, matchVars, resolveVars>>

(***************************************************************************)
(* Helpers on sequences.                                                   *)
(***************************************************************************)
Range(s) == {s[k] : k \in DOMAIN s}

\* Python's s[lo:hi] with 0 <= lo, in 0-based half-open positions.
Slice(s, lo, hi) == SubSeq(s, lo + 1, IF hi < Len(s) THEN hi ELSE Len(s))

RECURSIVE Concat(_)
Concat(ss) == IF ss = <<>> THEN <<>> ELSE Head(ss) \o Concat(Tail(ss))

\* All sequences over S of length at most n without repeated elements.
DistinctSeqs(S, n) ==
    {s \in UNION {[1..k -> S] : k \in 0..n} :
        \A a, b \in DOMAIN s : a # b => s[a] # s[b]}

(***************************************************************************)
(* Candidate rows and DataFrames.                                          *)
(***************************************************************************)
Rows == {[chat_id |-> k[1], chat_name |-> k[2], message_id |-> m] :
            k \in ChatKeys, m \in MsgIds}

Frames == DistinctSeqs(Rows, MaxRows)

KeyOf(row) == <<row.chat_id, row.chat_name>>

\* Order of the keys (chat_id, chat_name), the names as Python orders the
\* strings used here.
KeyLess(a, b) ==
    LET NameRank(n) == CASE n = "A" -> 1 [] n = "B" -> 2 [] OTHER -> 3
    IN a[1] < b[1] \/ (a[1] = b[1] /\ NameRank(a[2]) < NameRank(b[2]))

RECURSIVE SortKeys(_)
SortKeys(K) ==
    IF K = {} THEN <<>>
    ELSE LET m == CHOOSE x \in K : \A y \in K \ {x} : KeyLess(x, y)
         IN <<m>> \o SortKeys(K \ {m})

\* Mutant of GroupBy: no grouping, one group for each row in frame order.
GroupBy_PerRow(df) ==
    [g \in DOMAIN df |-> [key |-> KeyOf(df[g]), rows |-> <<df[g]>>]]

\* messages_df.groupby(['chat_id', 'chat_name']): one group per key, the keys
\* sorted, each group's rows in their order in the frame.
GroupBy(df) ==
    LET keys == SortKeys({KeyOf(df[k]) : k \in DOMAIN df})
    IN [g \in DOMAIN keys |->
          [key  |-> keys[g],
           rows |-> SelectSeq(df, LAMBDA r : KeyOf(r) = keys[g])]]

IdsOf(rows) == [k \in DOMAIN rows |-> rows[k].message_id]

(***************************************************************************)
(* Config                                                                  *)
(***************************************************************************)
\* required = ['API_ID', 'API_HASH', 'PHONE_NUMBER']
Credentials == {"API_ID", "API_HASH", "PHONE_NUMBER"}

\* Mutant of validate: PHONE_NUMBER is not required.
validate_PhoneNotRequired(cfg) == {"API_ID", "API_HASH"} \ cfg = {}

\* Config.validate: True, or (FALSE) ValueError when a required key is
\* missing.
validate(cfg) == Credentials \ cfg = {}

(***************************************************************************)
(* self.stats                                                              *)
(***************************************************************************)
InitStats == [total_processed |-> 0, successfully_deleted |-> 0,
              failed |-> 0, skipped |-> 0, errors |-> <<>>]

(***************************************************************************)
(* History events.                                                         *)
(***************************************************************************)
Event(ev, key, id, res, n) == [ev |-> ev, chat |-> key, id |-> id, res |-> res, n |-> n]

\* No chat: the chat of an event that concerns no chat.
NoChat == <<0, "">>

\* deleter.connect(): client.start and client.get_me, True ("ok") or False.
Connect(res) == Event("connect", NoChat, 0, res, 0)

\* deleter.disconnect()
Disconnect == Event("disconnect", NoChat, 0, "ok", 0)

\* deleter.print_statistics(), and the final results api_only_delete_messages
\* prints.
Summary == Event("print", NoChat, 0, "statistics", 0)

\* save_error_report: the CSV file it writes.
Report == Event("report", NoChat, 0, "deletion_errors.csv", 0)

\* Mutant of Finally: the finally clause does not disconnect.
Finally_NoDisconnect(events) == events

\* "finally: await deleter.disconnect()" after the events of the try block.
Finally(events) == Append(events, Disconnect)

\* A returned message: a fixed text, or a text with one formatted value.
Detail(text, arg) == [text |-> text, arg |-> arg]

(***************************************************************************)
(* The remote service's answer to one delete_message call.                 *)
(*   fetch : client.get_messages -> "own" (message.out), "foreign",        *)
(*           "missing" (None), "flood" / "error" (an exception)            *)
(*   del   : client.delete_messages -> "ack" (truthy), "nack" (falsy),     *)
(*           "flood", "admin", "forbidden", "error" (exceptions)           *)
(***************************************************************************)
Responses ==
    {[fetch |-> f, del |-> "none", secs |-> 0] :
        f \in {"foreign", "missing", "error"}}
    \cup {[fetch |-> "flood", del |-> "none", secs |-> n] : n \in FloodWaits}
    \cup {[fetch |-> "own", del |-> d, secs |-> 0] :
        d \in {"ack", "nack", "admin", "forbidden", "error"}}
    \cup {[fetch |-> "own", del |-> "flood", secs |-> n] : n \in FloodWaits}

\* The answer of a remote service that fails nowhere.
IsFault(resp) == ~(resp.fetch = "own" /\ resp.del = "ack")

\* The answers the remote service may give with `budget` failures left.
Answers(budget) == {resp \in Responses : budget > 0 \/ ~IsFault(resp)}

\* The budget after an answer: a failure counts when the service was called.
Spend(budget, resp, events) ==
    IF events # <<>> /\ IsFault(resp) THEN budget - 1 ELSE budget

\* A record self.logger writes: its text, the chat and the message id the
\* text names (NoChat and 0 when it names none) and the number it carries.
Log(text, key, id, n) == Event("log", key, id, text, n)

\* save_error_report: nothing without errors, else the file and the record
\* "Error report saved to".
save_error_report(st) ==
    IF st.errors = <<>>
    THEN <<>>
    ELSE <<Report, Log("Error report saved to: {output_path}", NoChat, 0, 0)>>

\* get_message_from_chat: the message, or None when there is none or when
\* client.get_messages raises anything.
get_message_from_chat(resp) ==
    IF resp.fetch \in {"own", "foreign"} THEN resp.fetch ELSE "None"

\* get_message_from_chat: the remote call, and the record its except clause
\* logs.
FetchEvents(chat_entity, message_id, resp) ==
    <<Event("fetch", chat_entity, message_id, resp.fetch, resp.secs)>> \o
    (IF resp.fetch \in {"flood", "error"}
     THEN <<Log("Error getting message {message_id} from chat {chat_entity.id}: {e}",
                chat_entity, message_id, resp.secs)>>
     ELSE <<>>)

\* What delete_message does: it returns (success, message) or an exception
\* leaves it, after the events `events`.
Returned(success, text, arg, events) ==
    [success |-> success, message |-> Detail(text, arg), events |-> events,
     raised |-> FALSE]

Raised(events) ==
    [success |-> FALSE, message |-> Detail("", 0), events |-> events,
     raised |-> TRUE]

\* except FloodWaitError as e
OnFloodWait(chat_entity, message_id, secs) ==
    Returned(FALSE, "Rate limited, waited {wait_time}s", secs,
             <<Log("Rate limited. Waiting {wait_time} seconds...", NoChat, 0, secs),
               Event("sleep", chat_entity, message_id, "flood", secs)>>)

\* except ChatAdminRequiredError
OnAdminRequired == Returned(FALSE, "Admin rights required", 0, <<>>)

\* Mutant of OnDeleteForbidden: the text of the admin clause is returned.
OnDeleteForbidden_AdminText == Returned(FALSE, "Admin rights required", 0, <<>>)

\* except MessageDeleteForbiddenError
OnDeleteForbidden == Returned(FALSE, "Message deletion forbidden", 0, <<>>)

\* except Exception as e
OnException ==
    Returned(FALSE, "Unexpected error: {e}", 1,
             <<Log("Unexpected error: {e}", NoChat, 0, 0)>>)

\* Mutant of ExceptClauses: there is no "except Exception" clause.
ExceptClauses_NoCatchAll(chat_entity, message_id, exc, secs) ==
    CASE exc = "flood"     -> OnFloodWait(chat_entity, message_id, secs)
      [] exc = "admin"     -> OnAdminRequired
      [] exc = "forbidden" -> OnDeleteForbidden
      [] OTHER             -> Raised(<<>>)

\* The except clauses of delete_message, for the exception exc raised in its
\* try block.
ExceptClauses(chat_entity, message_id, exc, secs) ==
    CASE exc = "flood"     -> OnFloodWait(chat_entity, message_id, secs)
      [] exc = "admin"     -> OnAdminRequired
      [] exc = "forbidden" -> OnDeleteForbidden
      [] OTHER             -> OnException

\* The result r of an except clause, after the events that came before it.
After(events, r) == [r EXCEPT !.events = events \o @]

\* Mutant of delete_message_live: "if not message.out" is not tested.
delete_message_live_NoOwnerCheck(chat_entity, message_id, resp) ==
    LET message == get_message_from_chat(resp)
        fetched == FetchEvents(chat_entity, message_id, resp)
        deleted == fetched \o
                   <<Event("delete", chat_entity, message_id, "ack", 0)>>
    IN  IF message = "None"
        THEN Returned(FALSE, "Message not found", 0, fetched)
        ELSE Returned(TRUE, "Message deleted successfully", 0, deleted)

\* delete_message after its dry_run check: the re-fetch, the delete call and
\* the exception handlers.
delete_message_live(chat_entity, message_id, resp) ==
    LET message == get_message_from_chat(resp)
        fetched == FetchEvents(chat_entity, message_id, resp)
        deleted == fetched \o
                   <<Event("delete", chat_entity, message_id, resp.del, resp.secs)>>
    IN  IF message = "None"
        THEN Returned(FALSE, "Message not found", 0, fetched)
        ELSE IF message # "own"
        THEN Returned(FALSE, "Message is not from you", 0, fetched)
        ELSE CASE resp.del = "ack" ->
                    Returned(TRUE, "Message deleted successfully", 0, deleted)
               [] resp.del = "nack" ->
                    Returned(FALSE, "Deletion failed", 0, deleted)
               [] OTHER ->
                    After(deleted,
                          ExceptClauses(chat_entity, message_id, resp.del, resp.secs))

\* Mutant of delete_message: the dry_run check is missing.
delete_message_NoDryRunCheck(chat_entity, message_id, dryRun, resp) ==
    delete_message_live(chat_entity, message_id, resp)

\* delete_message: <<success, message>> and the remote calls and sleeps made.
delete_message(chat_entity, message_id, dryRun, resp) ==
    IF dryRun
    THEN Returned(TRUE, "DRY RUN: Would delete message", 0, <<>>)
    ELSE delete_message_live(chat_entity, message_id, resp)

(***************************************************************************)
(* The export document (json_analyzer.py).  Strings the code compares or   *)
(* builds are sequences of tokens: "user7" is <<"user", 7>>, str(7) is     *)
(* <<7>>, a text is the sequence of its characters.                        *)
(***************************************************************************)
\* Who sent a message: the account owner, another user whose displayed name
\* is the owner's first name, or another user.
Senders == {"owner", "namesake", "other"}

\* message['from_id']
FromId(sender) ==
    CASE sender = "owner"    -> <<"user", 7>>
      [] sender = "namesake" -> <<"user", 8>>
      [] OTHER               -> <<"user", 9>>

\* message['from']
FromName(sender) == IF sender = "other" THEN "Bob" ELSE "Ann"

\* personal_information: user_id as str() prints it (<<>> when absent) and
\* first_name ("" when absent).
PersonalInfos ==
    {[user_id |-> u, first_name |-> f] : u \in {<<7>>, <<>>}, f \in {"Ann", ""}}

\* chat['id'] and chat['name'] of the chats of the export, in list order.
ExportChats == <<[id |-> 1, name |-> "A"], [id |-> 2, name |-> "B"]>>

Texts == {<<"a", "b">>, <<"a", "b", "c">>}

KeywordLists == {<<>>, << <<"a", "b">> >>}

\* The messages of an export: 'out' is set only on the owner's messages.
ExportMessages ==
    {[chat |-> c, id |-> m, date |-> d, text |-> t, out |-> o, sender |-> sd] :
        c \in DOMAIN ExportChats, m \in {1, 2}, d \in Dates, t \in Texts,
        o \in BOOLEAN, sd \in Senders}
    \ {msg \in [chat : DOMAIN ExportChats, id : {1, 2}, date : Dates, text : Texts,
                out : {TRUE}, sender : Senders \ {"owner"}] : TRUE}

\* The messages of all chats in the order the loops visit them: chat after
\* chat, each chat's messages in order. An id names one message of a chat;
\* two chats may use the same id.
Exports ==
    {msgs \in UNION {[1..k -> ExportMessages] : k \in 0..MaxMsgs} :
        \A a, b \in DOMAIN msgs :
           a < b => \/ msgs[a].chat < msgs[b].chat
                    \/ msgs[a].chat = msgs[b].chat /\ msgs[a].id < msgs[b].id}

\* extract_outgoing_messages: user_id, from personal_information or else the
\* from_id of the first message whose from_id starts with 'user'.
UserIdOf(doc) ==
    IF doc.info.user_id # <<>>
    THEN doc.info.user_id
    ELSE LET hits == {k \in DOMAIN doc.messages :
                         Head(FromId(doc.messages[k].sender)) = "user"}
         IN IF hits = {}
            THEN <<>>
            ELSE FromId(doc.messages[CHOOSE k \in hits : \A h \in hits : k <= h].sender)

\* extract_outgoing_messages: is_outgoing, methods 1 to 4.
IsOutgoing(msg, user_id, first_name) ==
    \/ msg.out
    \/ user_id # <<>> /\ FromId(msg.sender) = <<"user">> \o user_id
    \/ user_id # <<>> /\ FromId(msg.sender) = user_id
    \/ FromName(msg.sender) # "" /\ FromName(msg.sender) = first_name

\* extract_outgoing_messages: msg_data of the message at position k.
MsgData(doc, k) ==
    LET msg == doc.messages[k]
    IN [chat_id    |-> ExportChats[msg.chat].id,
        chat_name  |-> ExportChats[msg.chat].name,
        message_id |-> msg.id,
        date       |-> msg.date,
        text       |-> msg.text,
        sender     |-> msg.sender,
        idx        |-> k]

RECURSIVE ExtractFrom(_, _, _)
ExtractFrom(doc, k, user_id) ==
    IF k > Len(doc.messages)
    THEN <<>>
    ELSE (IF IsOutgoing(doc.messages[k], user_id, doc.info.first_name)
          THEN <<MsgData(doc, k)>>
          ELSE <<>>) \o ExtractFrom(doc, k + 1, user_id)

\* extract_outgoing_messages: self.messages_df
extract_outgoing_messages(doc) == ExtractFrom(doc, 1, UserIdOf(doc))

(***************************************************************************)
(* find_messages_by_keywords: keywords are regular expressions; here a     *)
(* keyword is a sequence of characters in which "." matches any character. *)
(***************************************************************************)
Lower(c) == CASE c = "A" -> "a" [] c = "B" -> "b" [] c = "C" -> "c" [] OTHER -> c

\* \w : the characters of a word.
IsWordChar(c) == c \notin {" ", "."}

\* \b at position p of text: between text[p - 1] and text[p].
Boundary(text, p) ==
    LET before == p - 1 \in DOMAIN text /\ IsWordChar(text[p - 1])
        after  == p \in DOMAIN text /\ IsWordChar(text[p])
    IN before # after

AtomMatches(atom, c, ignore_case) ==
    \/ atom = "."
    \/ IF ignore_case THEN Lower(atom) = Lower(c) ELSE atom = c

\* The pattern kw_pattern matches text at position p.
MatchesAt(kw, text, p, whole, ignore_case) ==
    /\ p + Len(kw) - 1 <= Len(text)
    /\ \A k \in DOMAIN kw : AtomMatches(kw[k], text[p + k - 1], ignore_case)
    /\ whole => Boundary(text, p) /\ Boundary(text, p + Len(kw))

\* re.search(rf'\b{kw}\b' or kw, text, 0 or re.IGNORECASE)
KeywordSearch(kw, text, caseSensitive, wholeWords) ==
    \E p \in 1..(Len(text) + 1) : MatchesAt(kw, text, p, wholeWords, ~caseSensitive)

\* pattern.search(text) of the combined pattern '|'.join(keyword_patterns)
PatternSearch(kws, text, caseSensitive, wholeWords) ==
    \E k \in DOMAIN kws : KeywordSearch(kws[k], text, caseSensitive, wholeWords)

\* ', '.join(strs)
Join(strs) ==
    IF strs = <<>> THEN <<>>
    ELSE Concat([k \in DOMAIN strs |->
                   IF k = 1 THEN strs[k] ELSE <<",", " ">> \o strs[k]])

\* The matched_keywords column: every kw of the list that re.search finds,
\* appended in list order and joined.
MatchedKeywords(kws, text, caseSensitive, wholeWords) ==
    Join(SelectSeq(kws, LAMBDA kw :
            KeywordSearch(kw, text, caseSensitive, wholeWords)))

\* find_messages_by_keywords: the rows of messages_df the pattern finds.
find_messages_by_keywords(df, kws, caseSensitive, wholeWords) ==
    SelectSeq(df, LAMBDA row : PatternSearch(kws, row.text, caseSensitive, wholeWords))

\* all_messages[all_messages['date'] < cutoff_time]
OlderThan(df, cutoff) == SelectSeq(df, LAMBDA row : row.date < cutoff)

\* old_messages[old_messages['message_id'].isin(keyword_matches['message_id'])]
IsIn(df, matches) ==
    SelectSeq(df, LAMBDA row : row.message_id \in {matches[k].message_id : k \in DOMAIN matches})

(***************************************************************************)
(* The keyword test of api_only_delete_messages.                           *)
(***************************************************************************)
\* str.lower()
LowerAll(t) == [k \in DOMAIN t |-> Lower(t[k])]

\* The characters of kw are those of t from position p on.
LiteralAt(kw, t, p, ignore_case) ==
    /\ p + Len(kw) - 1 <= Len(t)
    /\ \A k \in DOMAIN kw :
          IF ignore_case THEN Lower(kw[k]) = Lower(t[p + k - 1])
                         ELSE kw[k] = t[p + k - 1]

\* search_keyword in message_text
In(search_keyword, message_text) ==
    \E p \in 1..(Len(message_text) + 1) :
       LiteralAt(search_keyword, message_text, p, FALSE)

\* re.search(rf'\b{re.escape(search_keyword)}\b', message_text, flags)
EscapedSearch(search_keyword, message_text, ignore_case) ==
    \E p \in 1..(Len(message_text) + 1) :
       /\ LiteralAt(search_keyword, message_text, p, ignore_case)
       /\ Boundary(message_text, p)
       /\ Boundary(message_text, p + Len(search_keyword))

\* keyword_found after the loop over the keywords: message_text is the
\* lower-cased text whatever case_sensitive is.
KeywordFound(kws, msgText, caseSensitive, wholeWords) ==
    LET message_text == LowerAll(msgText)
    IN \E k \in DOMAIN kws :
          LET search_keyword == IF ~caseSensitive THEN LowerAll(kws[k]) ELSE kws[k]
          IN IF wholeWords
             THEN EscapedSearch(search_keyword, message_text, ~caseSensitive)
             ELSE In(search_keyword, message_text)

(***************************************************************************)
(* find_chat_by_name_or_id. An identifier and a dialog name are sequences  *)
(* of characters; a dialog without a name has the name <<>>.               *)
(***************************************************************************)
\* str(chat_id) of the chat ids used here.
Str(n) == CASE n = 1 -> <<"1">> [] n = 2 -> <<"2">> [] OTHER -> <<"0">>

\* What find_chat_by_name_or_id returns: [kind |-> "entity"] for an entity
\* looked up directly, [kind |-> "dialog", at |-> k] for the entity of the
\* k-th listed dialog, or None.
None == [kind |-> "none", at |-> 0]

Resolved(entity, events) == [entity |-> entity, events |-> events, raised |-> FALSE]

\* Mutant of ResolveFailed: there is no except clause, the exception leaves
\* find_chat_by_name_or_id.
ResolveFailed_Propagates(events) ==
    [entity |-> None, events |-> events, raised |-> TRUE]

\* except Exception as e: the error is logged and None returned.
ResolveFailed(events) ==
    Resolved(None, events \o
        <<Log("Error finding chat '{chat_identifier}': {e}", NoChat, 0, 0)>>)

\* Mutant of ScanDialogs: the last matching dialog is returned.
ScanDialogs_LastMatch(ident, dlgs, listing) ==
    LET call == <<Event("get_dialogs", NoChat, 0, listing, 0)>>
        hits == {k \in DOMAIN dlgs :
                    /\ dlgs[k] # <<>>
                    /\ In(LowerAll(ident), LowerAll(dlgs[k]))}
    IN IF listing # "ok"
       THEN ResolveFailed(call)
       ELSE IF hits = {}
       THEN Resolved(None, call)
       ELSE Resolved([kind |-> "dialog",
                      at |-> CHOOSE k \in hits : \A h \in hits : k >= h], call)

\* client.get_dialogs answers "ok" with the dialogs dlgs, or raises; the
\* first dialog with a name that holds the identifier, both lower-cased.
ScanDialogs(ident, dlgs, listing) ==
    LET call == <<Event("get_dialogs", NoChat, 0, listing, 0)>>
        hits == {k \in DOMAIN dlgs :
                    /\ dlgs[k] # <<>>
                    /\ In(LowerAll(ident), LowerAll(dlgs[k]))}
    IN IF listing # "ok"
       THEN ResolveFailed(call)
       ELSE IF hits = {}
       THEN Resolved(None, call)
       ELSE Resolved([kind |-> "dialog",
                      at |-> CHOOSE k \in hits : \A h \in hits : k <= h], call)

\* find_chat_by_name_or_id. client.get_entity answers "entity", "none" (a
\* falsy value), or raises "flood" (FloodWaitError) or "error" (any other
\* exception).
find_chat_by_name_or_id(ident, dlgs, remote) ==
    LET isdigit(str) ==
           str # <<>> /\ \A k \in DOMAIN str :
              str[k] \in {"0", "1", "2", "3", "4", "5", "6", "7", "8", "9"}
        numeric == isdigit(ident)
                   \/ (ident # <<>> /\ Head(ident) = "-" /\ isdigit(Tail(ident)))
        username == ident # <<>> /\ Head(ident) = "@"
        call == <<Event("get_entity", NoChat, 0, remote.entity, 0)>>
    IN IF numeric \/ username
       THEN IF remote.entity \in {"flood", "error"}
            THEN ResolveFailed(call)
            ELSE Resolved(IF remote.entity = "entity"
                          THEN [kind |-> "entity", at |-> 0] ELSE None, call)
       ELSE ScanDialogs(ident, dlgs, remote.listing)

\* Neither matcher has run.
MatchIdle ==
    /\ msg_text = <<>>
    /\ found_export = FALSE
    /\ found_api = FALSE
    /\ matched_keywords = <<>>
    /\ mpc = "idle"

\* find_chat_by_name_or_id is not called on its own.
ResolveIdle ==
    /\ chat_identifier = <<>>
    /\ dialogs = <<>>
    /\ found_chat = None
    /\ rpc = "idle"

\* The export path has not run.
ExportIdle ==
    /\ data = [info |-> [user_id |-> <<>>, first_name |-> ""], messages |-> <<>>]
    /\ keywords = <<>>
    /\ case_sensitive = FALSE
    /\ whole_words = TRUE
    /\ clock = HOURS_TO_KEEP + 1
    /\ xpc = "idle"
    /\ all_messages = <<>>
    /\ cutoff_time = 0
    /\ old_messages = <<>>
    /\ keyword_matches = <<>>
    /\ apc = "idle"
    /\ api_cutoff = 0
    /\ scan = 0
    /\ messages_to_delete = <<>>
    /\ cutoffs = <<>>

(***************************************************************************)
(* The state after construction: TelegramDeleter.__init__ has set          *)
(* self.stats; the entry point and its inputs are fixed.                   *)
(***************************************************************************)
Entries == {"main", "auto", "api"}

DeleterInit(entries, configs, faults, frames) ==
    /\ entry \in entries
    /\ config \in configs
    /\ fault_budget = faults
    /\ candidates \in frames
    /\ execute \in (IF entry = "main" THEN BOOLEAN ELSE {FALSE})
    /\ confirm \in (IF entry = "main" /\ execute THEN BOOLEAN ELSE {FALSE})
    /\ arg_batch_size \in (IF entry = "main" THEN 1..MaxBatch ELSE {1})
    /\ arg_delay \in (IF entry = "main" THEN Delays ELSE {0})
    /\ pc = "start"
    /\ messages_df = <<>>
    /\ dry_run = TRUE
    /\ batch_size = 1
    /\ delay_between_batches = 0
    /\ stats = InitStats
    /\ chat_groups = <<>>
    /\ processed_chats = 0
    /\ message_ids = <<>>
    /\ i = 0
    /\ batch = <<>>
    /\ j = 1
    /\ deleted_count = 0
    /\ failed_count = 0
    /\ history = <<>>
    /\ batches = <<>>
    /\ trace = <<>>

InitFor(entries, configs, faults) ==
    /\ DeleterInit(entries, configs, faults, Frames)
    /\ ExportIdle
    /\ MatchIdle
    /\ ResolveIdle

\* A run through an entry point, with any of the credentials present or
\* absent.
Init == InitFor(Entries, SUBSET Credentials, MaxFaults)

\* A deleter object whose delete_messages_batch is called directly.
InitDirect == InitFor({"direct"}, {Credentials}, MaxDirectFaults)

inputVars == <<entry, config, execute, confirm, arg_batch_size, arg_delay, candidates>>
\* The inputs, and the variables of the export path, which the deleter never
\* touches.
restVars == <<inputVars, exportVars, matchVars, resolveVars>>
loopVars == <<chat_groups, processed_chats, message_ids, i, batch, j>>
paramVars == <<messages_df, dry_run, batch_size, delay_between_batches>>
apiVars == <<deleted_count, failed_count>>

\* A call deleter.delete_messages_batch(df, dry_run=dr, batch_size=bs,
\* delay_between_batches=dl); tr is the trace the call begins with.
Call(df, dr, bs, dl, tr) ==
    /\ messages_df' = df
    /\ dry_run' = dr
    /\ batch_size' = bs
    /\ delay_between_batches' = dl
    /\ history' = Append(history, [df |-> df, dry_run |-> dr, before |-> stats])
    /\ batches' = <<>>
    /\ trace' = tr
    /\ pc' = "enter"
    /\ UNCHANGED <<restVars, loopVars, apiVars, stats, fault_budget>>

\* The entry point ends at `to` after the events `events`.
Leave(to, events) ==
    /\ pc' = to
    /\ trace' = trace \o events
    /\ UNCHANGED <<restVars, loopVars, paramVars, apiVars, stats, history,
                   batches, fault_budget>>

\* Config.validate() raised ValueError: main lets it propagate, the other
\* entry points print it and return.
ConfigError == Leave("config_error", <<>>)

\* deleter.connect() returned False: "Failed to connect to Telegram".
ConnectFailed == Leave("exit", <<Connect("failed")>>)

\* telegram_deleter.main up to its call of delete_messages_batch.
\* --dry-run is store_true with default True, so args.dry_run is always True.
MainDryRun == IF execute THEN ~execute ELSE TRUE

MainStart ==
    /\ entry = "main"
    /\ pc = "start"
    /\ IF ~validate(config)
       THEN ConfigError
       ELSE IF ~MainDryRun /\ ~confirm
       THEN Leave("exit", <<>>)
       ELSE \E connected \in BOOLEAN :
               IF connected
               THEN Call(candidates, MainDryRun, arg_batch_size, arg_delay,
                         <<Connect("ok")>>)
               ELSE Leave("exit", Finally(<<Connect("failed")>>))

\* auto_delete_old_messages from the selected old_messages to its call of
\* delete_messages_batch.
AutoDryRun == FALSE

AutoStart ==
    /\ entry = "auto"
    /\ pc = "start"
    /\ IF ~validate(config)
       THEN ConfigError
       ELSE IF candidates = <<>>
       THEN Leave("exit", <<>>)
       ELSE \E connected \in BOOLEAN :
               IF connected
               THEN Call(candidates, AutoDryRun, BATCH_SIZE, DELAY_BETWEEN_BATCHES,
                         <<Connect("ok")>>)
               ELSE ConnectFailed

\* A caller of the class calls delete_messages_batch itself, on the candidate
\* frame or on an empty one, with the default batch_size and
\* delay_between_batches of the signature.
DefaultBatchSize == 100
DefaultDelay == 2

DirectCall ==
    /\ entry = "direct"
    /\ pc \in {"start", "returned"}
    /\ Len(history) < MaxCalls
    /\ \E dr \in BOOLEAN, df \in {candidates, <<>>} :
          Call(df, dr, DefaultBatchSize, DefaultDelay, <<>>)

\* Mutant of BatchEnter: the statistics start anew with every call.
BatchEnter_ResetsStats ==
    /\ pc = "enter"
    /\ IF messages_df = <<>>
       THEN /\ trace' = Append(trace, Log("No messages to delete", NoChat, 0, 0))
            /\ pc' = "returned"
            /\ UNCHANGED <<chat_groups, processed_chats>>
       ELSE /\ trace' = trace \o
                  <<Log("Starting {'dry run' if dry_run else 'deletion'} of {len(messages_df)} messages",
                        NoChat, 0, Len(messages_df)),
                    Log("Batch size: {batch_size}, Delay: {delay_between_batches}s",
                        NoChat, 0, batch_size)>>
            /\ chat_groups' = GroupBy(messages_df)
            /\ processed_chats' = 0
            /\ pc' = "resolve"
    /\ stats' = InitStats
    /\ UNCHANGED <<restVars, paramVars, apiVars, message_ids, i, batch, j,
                   history, batches, fault_budget>>

\* delete_messages_batch: the empty check and the grouping.
BatchEnter ==
    /\ pc = "enter"
    /\ IF messages_df = <<>>
       THEN /\ trace' = Append(trace, Log("No messages to delete", NoChat, 0, 0))
            /\ pc' = "returned"
            /\ UNCHANGED <<chat_groups, processed_chats>>
       ELSE /\ trace' = trace \o
                  <<Log("Starting {'dry run' if dry_run else 'deletion'} of {len(messages_df)} messages",
                        NoChat, 0, Len(messages_df)),
                    Log("Batch size: {batch_size}, Delay: {delay_between_batches}s",
                        NoChat, 0, batch_size)>>
            /\ chat_groups' = GroupBy(messages_df)
            /\ processed_chats' = 0
            /\ pc' = "resolve"
    /\ UNCHANGED <<restVars, paramVars, apiVars, stats, message_ids, i, batch, j,
                   history, batches, fault_budget>>

\* Where the loop over chat_groups goes after a chat: the next chat, or
\* "return self.stats".
AfterChat(n) == IF n < Len(chat_groups) THEN "resolve" ELSE "returned"

\* The stats after a chat that could not be found.
ChatNotFound(st, chat_messages) ==
    [st EXCEPT !.failed = @ + Len(chat_messages)]

\* Mutant of AfterNotFound: the loop over the chats ends at a chat that is
\* not found.
AfterNotFound_Break(n) == "returned"

\* "continue" after a chat that could not be found.
AfterNotFound(n) == AfterChat(n)

\* One iteration head of "for (chat_id, chat_name), chat_messages in chat_groups":
\* find_chat_by_name_or_id(str(chat_id)). An exception that left it would
\* leave delete_messages_batch.
ResolveChat ==
    /\ pc = "resolve"
    /\ processed_chats' = processed_chats + 1
    /\ LET group == chat_groups[processed_chats + 1]
       IN \E answer \in {"entity", "none"}
                         \cup (IF fault_budget > 0 THEN {"flood", "error"} ELSE {}) :
            LET r == find_chat_by_name_or_id(Str(group.key[1]), <<>>,
                        [entity |-> answer, listing |-> "ok"])
                found == r.entity # None
                begun == trace \o
                  <<Log("Processing chat {processed_chats}/{total_chats}: {chat_name} ({len(chat_messages)} messages)",
                        group.key, 0, Len(group.rows))>> \o r.events
            IN /\ fault_budget' = IF answer \in {"flood", "error"}
                                  THEN fault_budget - 1 ELSE fault_budget
               /\ IF r.raised
                  THEN /\ trace' = begun \o
                             (IF entry = "direct" THEN <<>> ELSE Finally(<<>>))
                       /\ pc' = "aborted"
                       /\ UNCHANGED <<stats, message_ids, i>>
                  ELSE /\ trace' = begun \o
                          <<Event("resolve", group.key, 0,
                                  IF found THEN "found" ELSE "None", 0)>> \o
                          (IF found
                           THEN <<>>
                           ELSE <<Log("Could not find chat: {chat_name} (ID: {chat_id})",
                                      group.key, 0, 0)>>)
                       /\ IF found
                          THEN /\ message_ids' = IdsOf(group.rows)
                               /\ i' = 0
                               /\ pc' = "batch"
                               /\ UNCHANGED stats
                          ELSE /\ stats' = ChatNotFound(stats, group.rows)
                               /\ pc' = AfterNotFound(processed_chats + 1)
                               /\ UNCHANGED <<message_ids, i>>
    /\ UNCHANGED <<restVars, paramVars, apiVars, chat_groups, batch, j, history, batches>>

\* Mutant of BatchOf: the slice is one element too long.
BatchOf_OneTooLong(ids, start, size) == Slice(ids, start, start + size + 1)

\* batch = message_ids[i:i + batch_size]
BatchOf(ids, start, size) == Slice(ids, start, start + size)

FormBatch ==
    /\ pc = "batch"
    /\ batch' = BatchOf(message_ids, i, batch_size)
    /\ j' = 1
    /\ batches' = Append(batches,
          [chat |-> chat_groups[processed_chats].key, ids |-> batch'])
    /\ trace' = Append(trace,
          Log("  Processing batch {batch_num}/{total_batches} ({len(batch)} messages)",
              NoChat, 0, Len(batch')))
    /\ pc' = "attempt"
    /\ UNCHANGED <<restVars, paramVars, apiVars, stats, chat_groups,
                   processed_chats, message_ids, i, history, fault_budget>>

\* Mutant of Record: a dry-run success is counted as a deletion.
Record_DryRunCountsDeleted(st, dryRun, chat_name, msg_id, success, message) ==
    LET st1 == [st EXCEPT !.total_processed = @ + 1]
    IN  IF success
        THEN [st1 EXCEPT !.successfully_deleted = @ + 1]
        ELSE [st1 EXCEPT !.failed = @ + 1,
                         !.errors = Append(@, [chat_name  |-> chat_name,
                                               message_id |-> msg_id,
                                               error      |-> message])]

\* Mutant of Record: a failed attempt does not count as processed.
Record_FailureNotProcessed(st, dryRun, chat_name, msg_id, success, message) ==
    IF success
    THEN IF dryRun
         THEN [st EXCEPT !.total_processed = @ + 1, !.skipped = @ + 1]
         ELSE [st EXCEPT !.total_processed = @ + 1, !.successfully_deleted = @ + 1]
    ELSE [st EXCEPT !.failed = @ + 1,
                    !.errors = Append(@, [chat_name  |-> chat_name,
                                          message_id |-> msg_id,
                                          error      |-> message])]

\* Mutant of Record: a live success is processed but not counted as deleted.
Record_LiveSuccessNotCounted(st, dryRun, chat_name, msg_id, success, message) ==
    LET st1 == [st EXCEPT !.total_processed = @ + 1]
    IN  IF success
        THEN IF dryRun
             THEN [st1 EXCEPT !.skipped = @ + 1]
             ELSE st1
        ELSE [st1 EXCEPT !.failed = @ + 1,
                         !.errors = Append(@, [chat_name  |-> chat_name,
                                               message_id |-> msg_id,
                                               error      |-> message])]

\* The stats after one delete_message call returned <<success, message>>.
Record(st, dryRun, chat_name, msg_id, success, message) ==
    LET st1 == [st EXCEPT !.total_processed = @ + 1]
    IN  IF success
        THEN IF dryRun
             THEN [st1 EXCEPT !.skipped = @ + 1]
             ELSE [st1 EXCEPT !.successfully_deleted = @ + 1]
        ELSE [st1 EXCEPT !.failed = @ + 1,
                         !.errors = Append(@, [chat_name  |-> chat_name,
                                               message_id |-> msg_id,
                                               error      |-> message])]

Outcome(dryRun, success) ==
    IF success THEN (IF dryRun THEN "Skipped" ELSE "Deleted") ELSE "Failed"

\* Mutant of NextIndex: a message whose attempt failed is attempted again.
NextIndex_RetryFailed(k, success) == IF success THEN k + 1 ELSE k

\* "for msg_id in batch": the position in batch after the attempt at
\* position k, whatever its outcome.
NextIndex(k, success) == k + 1

\* One iteration of "for msg_id in batch". An exception that leaves
\* delete_message leaves delete_messages_batch, which has no handler.
Attempt ==
    /\ pc = "attempt"
    /\ LET key == chat_groups[processed_chats].key
           msg_id == batch[j]
       IN \E resp \in Answers(fault_budget) :
            LET r == delete_message(key, msg_id, dry_run, resp)
            IN /\ fault_budget' = Spend(fault_budget, resp, r.events)
               /\ IF r.raised
                  THEN /\ trace' = trace \o r.events \o
                             (IF entry = "direct" THEN <<>> ELSE Finally(<<>>))
                       /\ pc' = "aborted"
                       /\ UNCHANGED <<stats, j>>
                  ELSE /\ stats' = Record(stats, dry_run, key[2], msg_id,
                                          r.success, r.message)
                       /\ trace' = trace \o r.events \o
                             <<Event("attempt", key, msg_id,
                                     Outcome(dry_run, r.success), 0)>>
                       /\ j' = NextIndex(j, r.success)
                       /\ pc' = IF j' <= Len(batch) THEN "attempt" ELSE "pace"
    /\ UNCHANGED <<restVars, paramVars, apiVars, chat_groups, processed_chats,
                   message_ids, i, batch, history, batches>>

\* The end of one iteration of "for i in range(0, len(message_ids), batch_size)".
Pace ==
    /\ pc = "pace"
    /\ trace' = IF i + batch_size < Len(message_ids) /\ delay_between_batches > 0
                THEN trace \o
                     <<Log("  Waiting {delay_between_batches}s before next batch...",
                           NoChat, 0, delay_between_batches),
                       Event("sleep", chat_groups[processed_chats].key,
                             0, "batch", delay_between_batches)>>
                ELSE trace
    /\ i' = i + batch_size
    /\ pc' = IF i + batch_size < Len(message_ids)
             THEN "batch"
             ELSE AfterChat(processed_chats)
    /\ UNCHANGED <<restVars, paramVars, apiVars, stats, chat_groups,
                   processed_chats, message_ids, batch, j, history, batches,
                   fault_budget>>

\* main and auto_delete_old_messages after delete_messages_batch returned:
\* the statistics, the error report "if stats['errors']", the finally clause.
Finish ==
    /\ entry \in {"main", "auto"}
    /\ pc = "returned"
    /\ Leave("exit",
             Finally(<<Summary>> \o
                     (IF stats.errors # <<>> THEN save_error_report(stats) ELSE <<>>)))

\* api_only_delete_messages: nothing to delete, or the deletion loop begins.
ApiDryRun == FALSE

\* api_only_delete_messages up to its deletion loop: the dialogs are listed
\* and searched (candidates is the messages_to_delete the search leaves).
ApiStart ==
    /\ entry = "api"
    /\ pc = "start"
    /\ IF ~validate(config)
       THEN ConfigError
       ELSE \E connected \in BOOLEAN, listed \in BOOLEAN :
          IF ~connected
          THEN ConnectFailed
          ELSE IF ~listed
          THEN Leave("exit", Finally(<<Connect("ok"), Event("get_dialogs", NoChat, 0, "error", 0)>>))
          ELSE IF candidates = <<>>
          THEN Leave("exit", Finally(<<Connect("ok"), Event("get_dialogs", NoChat, 0, "ok", 0)>>))
          ELSE /\ pc' = "api"
               /\ j' = 1
               /\ deleted_count' = 0
               /\ failed_count' = 0
               /\ trace' = <<Connect("ok"), Event("get_dialogs", NoChat, 0, "ok", 0)>>
               /\ UNCHANGED <<restVars, paramVars, stats, chat_groups,
                              processed_chats, message_ids, i, batch, history, batches, fault_budget>>

\* Mutant of Count: the counter stops at one.
Count_StopsAtOne(count, hit) == IF hit /\ count < 1 THEN count + 1 ELSE count

\* "deleted_count += 1" under "if success", "failed_count += 1" under its
\* else and in the except clause of the loop.
Count(count, hit) == IF hit THEN count + 1 ELSE count

\* api_only_delete_messages: one iteration of "for msg in messages_to_delete".
ApiAttempt ==
    /\ entry = "api"
    /\ pc = "api"
    /\ LET msg == candidates[j]
       IN \E resp \in Answers(fault_budget) :
            LET r == delete_message(KeyOf(msg), msg.message_id, ApiDryRun, resp)
            IN /\ fault_budget' = Spend(fault_budget, resp, r.events)
               /\ deleted_count' = Count(deleted_count, r.success)
               /\ failed_count' = Count(failed_count, ~r.success)
               /\ trace' = trace \o r.events \o
                     <<Event("attempt", KeyOf(msg), msg.message_id,
                             Outcome(ApiDryRun, r.success),
                             IF r.raised THEN 1 ELSE 0)>>
    /\ j' = j + 1
    /\ pc' = IF j < Len(candidates) THEN "api" ELSE "api_done"
    /\ UNCHANGED <<restVars, paramVars, stats, chat_groups, processed_chats,
                   message_ids, i, batch, history, batches>>

\* api_only_delete_messages after its deletion loop: the final results and
\* the finally clause.
ApiFinish ==
    /\ entry = "api"
    /\ pc = "api_done"
    /\ Leave("exit", Finally(<<Summary>>))

Next ==
    \/ MainStart
    \/ AutoStart
    \/ BatchEnter
    \/ ResolveChat
    \/ FormBatch
    \/ Attempt
    \/ Pace
    \/ Finish
    \/ ApiStart
    \/ ApiAttempt
    \/ ApiFinish

Spec == Init /\ [][Next]_vars

\* The single control flow of an entry point goes on while it can: nothing
\* in the code waits for anything but a sleep or an answer.
\* The runs under fairness start from the frames whose rows carry the
\* message ids 1, 2, ... in row order.
InitFair ==
    /\ DeleterInit(Entries, SUBSET Credentials, MaxFaults,
                   {f \in Frames : \A k \in DOMAIN f : f[k].message_id = k})
    /\ ExportIdle
    /\ MatchIdle
    /\ ResolveIdle

SpecFair == InitFair /\ [][Next]_vars /\ WF_vars(Next)

NextDirect ==
    \/ DirectCall
    \/ BatchEnter
    \/ ResolveChat
    \/ FormBatch
    \/ Attempt
    \/ Pace

SpecDirect == InitDirect /\ [][NextDirect]_vars

(***************************************************************************)
(* auto_delete_old_messages from the export file to the frame it hands to  *)
(* the deleter (SpecExport).                                               *)
(***************************************************************************)
InitExport ==
    /\ DeleterInit({"auto"}, {Credentials}, 0, {<<>>})
    /\ MatchIdle
    /\ ResolveIdle
    /\ data \in [info : PersonalInfos, messages : Exports]
    /\ keywords \in KeywordLists
    /\ case_sensitive = FALSE
    /\ whole_words \in (IF keywords = <<>> THEN {TRUE} ELSE BOOLEAN)
    /\ clock = HOURS_TO_KEEP + 1
    /\ xpc = "start"
    /\ all_messages = <<>>
    /\ cutoff_time = 0
    /\ old_messages = <<>>
    /\ keyword_matches = <<>>
    /\ apc = "start"
    /\ api_cutoff = 0
    /\ scan = 0
    /\ messages_to_delete = <<>>
    /\ cutoffs = <<>>

configVars == <<data, keywords, case_sensitive, whole_words, clock>>

\* datetime.now() - timedelta(hours=hours_to_keep)
Cutoff(now) == now - HOURS_TO_KEEP

\* Mutant of ComparedWith: the cutoff is computed anew for the comparison.
ComparedWith_Recomputed(stored, now) == now - HOURS_TO_KEEP

\* The cutoff a date is compared with at time now: the variable cutoff_time.
ComparedWith(stored, now) == stored

\* History records: at time now a run computed a cutoff (op "set"), or
\* compared a date with one (op "cmp").
CutoffRecord(op, run, value, now) ==
    [op |-> op, run |-> run, value |-> value, at |-> now]

\* analyzer.load_export(); analyzer.extract_outgoing_messages()
ExtractOutgoing ==
    /\ xpc = "start"
    /\ all_messages' = extract_outgoing_messages(data)
    /\ xpc' = "extracted"
    /\ UNCHANGED <<deleterVars, matchVars, resolveVars, configVars, cutoff_time, old_messages,
                   keyword_matches, apiSelVars, cutoffs>>

\* The cutoff and the filter on the dates. A frame without rows has no
\* 'date' column: all_messages['date'] raises KeyError, which the handler at
\* the end of the function prints.
FilterOld ==
    /\ xpc = "extracted"
    /\ cutoff_time' = Cutoff(clock)
    /\ IF all_messages = <<>>
       THEN /\ xpc' = "error"
            /\ cutoffs' = Append(cutoffs, CutoffRecord("set", "export", cutoff_time', clock))
            /\ UNCHANGED old_messages
       ELSE /\ old_messages' = OlderThan(all_messages, ComparedWith(cutoff_time', clock))
            /\ cutoffs' = Append(cutoffs, CutoffRecord("set", "export", cutoff_time', clock)) \o
                  [k \in DOMAIN all_messages |->
                     CutoffRecord("cmp", "export", ComparedWith(cutoff_time', clock), clock)]
            /\ xpc' = "old"
    /\ UNCHANGED <<deleterVars, matchVars, resolveVars, configVars, all_messages,
                   keyword_matches, apiSelVars>>

\* The keyword filter. When no message matches, keyword_matches is a frame
\* without columns and keyword_matches['message_id'] raises KeyError.
FilterKeywords ==
    /\ xpc = "old"
    /\ IF keywords # <<>>
       THEN /\ keyword_matches' =
                  find_messages_by_keywords(all_messages, keywords,
                                            case_sensitive, whole_words)
            /\ IF keyword_matches' = <<>>
               THEN /\ xpc' = "error"
                    /\ UNCHANGED old_messages
               ELSE /\ old_messages' = IsIn(old_messages, keyword_matches')
                    /\ xpc' = "filtered"
       ELSE /\ xpc' = "filtered"
            /\ UNCHANGED <<old_messages, keyword_matches>>
    /\ UNCHANGED <<deleterVars, matchVars, resolveVars, configVars, all_messages, cutoff_time,
                   apiSelVars, cutoffs>>

\* Nothing to delete, or old_messages goes to delete_messages_batch.
HandOver ==
    /\ xpc = "filtered"
    /\ xpc' = IF old_messages = <<>> THEN "nothing" ELSE "handed"
    /\ UNCHANGED <<deleterVars, matchVars, resolveVars, configVars, all_messages, cutoff_time,
                   old_messages, keyword_matches, apiSelVars, cutoffs>>

\* Time passes while a run selects.
Tick ==
    /\ xpc # "idle"
    /\ apc # "selected"
    /\ clock < HOURS_TO_KEEP + 1 + MaxTicks
    /\ clock' = clock + 1
    /\ UNCHANGED <<deleterVars, matchVars, resolveVars, data, keywords, case_sensitive,
                   whole_words, xpc, all_messages, cutoff_time, old_messages,
                   keyword_matches, apiSelVars, cutoffs>>

\* api_only_delete_messages on the account the export was taken from, after
\* the export run: the cutoff, computed before the search.
ApiCutoff ==
    /\ apc = "start"
    /\ xpc \in {"handed", "nothing", "error"}
    /\ api_cutoff' = Cutoff(clock)
    /\ cutoffs' = Append(cutoffs, CutoffRecord("set", "api", api_cutoff', clock))
    /\ scan' = 1
    /\ messages_to_delete' = <<>>
    /\ apc' = IF data.messages = <<>> THEN "selected" ELSE "scan"
    /\ UNCHANGED <<deleterVars, matchVars, resolveVars, configVars, xpc, all_messages,
                   cutoff_time, old_messages, keyword_matches>>

\* api_only_delete_messages: one iteration of "for message in messages", the
\* dialogs in order; message.out is set on the messages the account sent.
ApiScan ==
    /\ apc = "scan"
    /\ LET message == data.messages[scan]
           out == message.sender = "owner"
           cutoff == ComparedWith(api_cutoff, clock)
           selected ==
              /\ out
              /\ message.date < cutoff
              /\ keywords # <<>> =>
                    KeywordFound(keywords, message.text, case_sensitive, whole_words)
       IN /\ messages_to_delete' =
                IF selected THEN Append(messages_to_delete, MsgData(data, scan))
                            ELSE messages_to_delete
          /\ cutoffs' = IF out THEN Append(cutoffs, CutoffRecord("cmp", "api", cutoff, clock))
                                ELSE cutoffs
    /\ scan' = scan + 1
    /\ apc' = IF scan < Len(data.messages) THEN "scan" ELSE "selected"
    /\ UNCHANGED <<deleterVars, matchVars, resolveVars, configVars, xpc, all_messages,
                   cutoff_time, old_messages, keyword_matches, api_cutoff>>

NextExport ==
    \/ ExtractOutgoing
    \/ FilterOld
    \/ FilterKeywords
    \/ HandOver
    \/ Tick
    \/ ApiCutoff
    \/ ApiScan

SpecExport == InitExport /\ [][NextExport]_vars

(***************************************************************************)
(* One message text put to the matcher of the export path and to the       *)
(* matcher of the API-only path, under the same settings (SpecMatch).      *)
(***************************************************************************)
\* The characters of keywords and texts: letters in both cases, the space
\* and the full stop.
Chars == {"a", "A", "b", " ", "."}

StringsUpTo(n) == UNION {[1..k -> Chars] : k \in 0..n}

\* The keyword lists put to the matchers: one keyword, or up to MaxKeywords
\* keywords of one character, repetitions included.
InitMatch ==
    /\ DeleterInit({"auto"}, {Credentials}, 0, {<<>>})
    /\ data = [info |-> [user_id |-> <<>>, first_name |-> ""], messages |-> <<>>]
    /\ keywords \in
          {<<kw>> : kw \in StringsUpTo(MaxKeywordLen) \ {<<>>}}
          \cup UNION {[1..k -> StringsUpTo(1) \ {<<>>}] : k \in 2..MaxKeywords}
    /\ case_sensitive \in BOOLEAN
    /\ whole_words \in BOOLEAN
    /\ clock = HOURS_TO_KEEP + 1
    /\ xpc = "idle"
    /\ all_messages = <<>>
    /\ cutoff_time = 0
    /\ old_messages = <<>>
    /\ keyword_matches = <<>>
    /\ apc = "idle"
    /\ api_cutoff = 0
    /\ scan = 0
    /\ messages_to_delete = <<>>
    /\ cutoffs = <<>>
    /\ msg_text \in StringsUpTo(MaxTextLen)
    /\ found_export = FALSE
    /\ found_api = FALSE
    /\ matched_keywords = <<>>
    /\ mpc = "start"
    /\ ResolveIdle

\* analyzer.find_messages_by_keywords on a frame whose one row has the text.
SearchExport ==
    /\ mpc = "start"
    /\ found_export' =
          (find_messages_by_keywords(<<[text |-> msg_text]>>, keywords,
                                     case_sensitive, whole_words) # <<>>)
    /\ matched_keywords' =
          IF found_export'
          THEN MatchedKeywords(keywords, msg_text, case_sensitive, whole_words)
          ELSE <<>>
    /\ mpc' = "export"
    /\ UNCHANGED <<deleterVars, exportVars, resolveVars, msg_text, found_api>>

\* The keyword test of api_only_delete_messages on a message with the text.
SearchApi ==
    /\ mpc = "export"
    /\ found_api' = KeywordFound(keywords, msg_text, case_sensitive, whole_words)
    /\ mpc' = "done"
    /\ UNCHANGED <<deleterVars, exportVars, resolveVars, msg_text, found_export,
                   matched_keywords>>

NextMatch ==
    \/ SearchExport
    \/ SearchApi

SpecMatch == InitMatch /\ [][NextMatch]_vars

(***************************************************************************)
(* find_chat_by_name_or_id called on its own, on every identifier and      *)
(* dialog list of a small alphabet; the name <<>> is a dialog without name.*)
(***************************************************************************)
InitResolve ==
    /\ DeleterInit({"direct"}, {Credentials}, 0, {<<>>})
    /\ ExportIdle
    /\ MatchIdle
    /\ chat_identifier \in
          UNION {[1..k -> {"1", "-", "@", "a", "A"}] : k \in 0..MaxIdentifierLen}
    /\ dialogs \in
          UNION {[1..n -> UNION {[1..k -> {"a", "A", "b"}] : k \in 0..MaxNameLen}] :
                    n \in 0..MaxDialogs}
    /\ found_chat = None
    /\ rpc = "start"

\* await deleter.find_chat_by_name_or_id(chat_identifier)
FindChat ==
    /\ rpc = "start"
    /\ \E entity \in {"entity", "none", "flood", "error"},
          listing \in {"ok", "flood", "error"} :
          LET r == find_chat_by_name_or_id(chat_identifier, dialogs,
                      [entity |-> entity, listing |-> listing])
          IN /\ found_chat' = r.entity
             /\ trace' = r.events
             /\ rpc' = IF r.raised THEN "raised" ELSE "returned"
    /\ UNCHANGED <<inputVars, exportVars, matchVars, loopVars, paramVars, apiVars,
                   stats, history, batches, fault_budget, pc>>
    /\ UNCHANGED <<chat_identifier, dialogs>>

SpecResolve == InitResolve /\ [][FindChat]_vars

\* The rows handed to the deleter.
Handed == IF xpc = "handed" THEN Range(old_messages) ELSE {}

\* The export path has ended.
ExportEnded == xpc \in {"handed", "nothing", "error"}

(***************************************************************************)
(* What the histories say about the current call.                          *)
(***************************************************************************)
EventsOf(kinds) == SelectSeq(trace, LAMBDA e : e.ev \in kinds)

\* The chats the current call found, and those it did not find.
ResolvedKeys ==
    {trace[k].chat : k \in {x \in DOMAIN trace :
        trace[x].ev = "resolve" /\ trace[x].res = "found"}}

NotFoundKeys ==
    {trace[k].chat : k \in {x \in DOMAIN trace :
        trace[x].ev = "resolve" /\ trace[x].res = "None"}}

RowsOfKeys(df, keys) == SelectSeq(df, LAMBDA r : KeyOf(r) \in keys)

\* self.stats when the current call of delete_messages_batch began.
Before == history[Len(history)].before

\* The (chat, message_id) pairs attempted, in order.
AttemptPairs ==
    LET a == EventsOf({"attempt"})
    IN [k \in DOMAIN a |-> <<a[k].chat, a[k].id>>]

\* The (chat, message_id) pairs a call on df attempts when every chat of df
\* is found: group after group, each group's rows in order.
ExpectedAttempts(df) ==
    LET groups == GroupBy(df)
    IN Concat([g \in DOMAIN groups |->
                 [k \in DOMAIN groups[g].rows |->
                    <<groups[g].key, groups[g].rows[k].message_id>>]])

BatchesOf(key) == SelectSeq(batches, LAMBDA b : b.chat = key)

(***************************************************************************)
(* C1. Live deletion is an explicit opt-in: a run in which the user did    *)
(* not ask for live execution (main: --execute; the other entry points:    *)
(* Config.DRY_RUN set to False) issues no remote delete call.              *)
(* The code: auto_delete_old_messages and api_only_delete_messages pass    *)
(* dry_run=False and never read Config.DRY_RUN.                            *)
(***************************************************************************)
C1_LiveDeletionIsOptIn ==
    LET ExplicitLive == IF entry = "main" THEN execute ELSE ~DRY_RUN
    IN ~ExplicitLive => \A k \in DOMAIN trace : trace[k].ev # "delete"

(***************************************************************************)
(* C5. In a dry-run call of delete_messages_batch no message is re-fetched *)
(* and no remote delete is issued, whatever the remote service would       *)
(* answer.                                                                 *)
(***************************************************************************)
C5_DryRunNoFetchNoDelete ==
    (Len(history) > 0 /\ dry_run) =>
        \A k \in DOMAIN trace : trace[k].ev \notin {"fetch", "delete"}

C5_Witness ==
    /\ pc = "returned"
    /\ Len(history) > 0
    /\ dry_run
    /\ stats.skipped >= 2

C7_BatchIntegrity ==
    /\ \A k \in DOMAIN batches : Len(batches[k].ids) \in 1..batch_size
    /\ (pc = "returned" /\ messages_df # <<>>) =>
          \A g \in DOMAIN chat_groups :
             LET key == chat_groups[g].key
                 ids == IdsOf(chat_groups[g].rows)
                 bs  == BatchesOf(key)
             IN IF key \in ResolvedKeys
                THEN /\ Len(bs) = (Len(ids) + batch_size - 1) \div batch_size
                     /\ Concat([k \in DOMAIN bs |-> bs[k].ids]) = ids
                ELSE bs = <<>>

\* A chat with 3 ids and batch_size 2: two batches, of sizes 2 and 1.
C7_Witness ==
    /\ pc = "returned"
    /\ batch_size = 2
    /\ \E g \in DOMAIN chat_groups :
          LET bs == BatchesOf(chat_groups[g].key)
          IN /\ Len(chat_groups[g].rows) = 3
             /\ Len(bs) = 2
             /\ Len(bs[1].ids) = 2
             /\ Len(bs[2].ids) = 1

(***************************************************************************)
(* C8. Failure isolation: a chat that is not found gets no fetch, delete   *)
(* or attempt, and the attempts of the call are those of a call on the     *)
(* candidates without the chats that were not found.                       *)
(***************************************************************************)
C8_FailureIsolation ==
    /\ \A k \in DOMAIN trace :
          trace[k].ev \in {"fetch", "delete", "attempt"} =>
             trace[k].chat \notin NotFoundKeys
    /\ (pc = "returned" /\ messages_df # <<>>) =>
          AttemptPairs = ExpectedAttempts(
              SelectSeq(messages_df, LAMBDA r : KeyOf(r) \notin NotFoundKeys))

\* The first chat was not found and the second was attempted.
C8_Witness ==
    /\ pc = "returned"
    /\ Len(chat_groups) = 2
    /\ chat_groups[1].key \in NotFoundKeys
    /\ chat_groups[2].key \in ResolvedKeys
    /\ Len(AttemptPairs) = Len(chat_groups[2].rows)

(***************************************************************************)
(* C9. The error ledger holds one entry per failure:                       *)
(* len(stats.errors) == stats.failed in every state.                       *)
(* The code: a chat that is not found adds its candidates to failed and    *)
(* appends nothing to the ledger.                                          *)
(***************************************************************************)
C9_LedgerMatchesFailed == Len(stats.errors) = stats.failed

(***************************************************************************)
(* C10 as stated: total_processed == successfully_deleted + skipped +      *)
(* failed in every state, and a completed run ends with total_processed    *)
(* equal to the number of candidates.                                      *)
(***************************************************************************)
C10_StatsAccounting ==
    /\ stats.total_processed =
          stats.successfully_deleted + stats.skipped + stats.failed
    /\ (pc = "returned" /\ Len(history) = 1) =>
          stats.total_processed = Len(messages_df)

(***************************************************************************)
(* C10 amended: total_processed counts the attempts; the candidates of a   *)
(* chat that was not found are counted in failed and not in                *)
(* total_processed. In every state of a run total_processed + U ==         *)
(* successfully_deleted + skipped + failed, U the number of candidates of  *)
(* the chats not found so far, and a completed run ends with               *)
(* total_processed equal to the number of candidates of the chats found.   *)
(***************************************************************************)
C10_AccountingOfAttempts ==
    Len(history) = 1 =>
       LET u == Len(RowsOfKeys(messages_df, NotFoundKeys))
       IN /\ stats.total_processed + u =
                stats.successfully_deleted + stats.skipped + stats.failed
          /\ stats.total_processed = Len(AttemptPairs)
          /\ pc = "returned" =>
                stats.total_processed = Len(RowsOfKeys(messages_df, ResolvedKeys))

\* A run ended with a chat not found and another chat attempted with a failure.
C10_Witness ==
    /\ pc = "returned"
    /\ NotFoundKeys # {}
    /\ stats.total_processed > 0
    /\ stats.failed > Len(RowsOfKeys(messages_df, NotFoundKeys))

(***************************************************************************)
(* C2. In the export path a message of the export is handed to the deleter *)
(* if and only if the owner sent it, its date is before the cutoff and     *)
(* (there are no keywords or the keyword pattern matches its text).        *)
(* The code: see C3 (message_id alone joins the keyword matches to the old *)
(* messages) and C4 (who the owner is is guessed).                         *)
(***************************************************************************)
Eligible(msg) ==
    /\ msg.sender = "owner"
    /\ msg.date < cutoff_time
    /\ keywords = <<>> \/ PatternSearch(keywords, msg.text, case_sensitive, whole_words)

C2_HandedIffEligible ==
    ExportEnded =>
       \A k \in DOMAIN data.messages :
          (\E row \in Handed : row.idx = k) <=> Eligible(data.messages[k])

(***************************************************************************)
(* C3. Every row handed to the deleter is older than the cutoff and, when  *)
(* there are keywords, the keyword pattern matches its own text.           *)
(* The code: a row is kept when its message_id is the message_id of any    *)
(* matching message, of whatever chat.                                     *)
(***************************************************************************)
C3_CandidateInvariant ==
    \A row \in Handed :
       /\ row.date < cutoff_time
       /\ keywords = <<>> \/ PatternSearch(keywords, row.text, case_sensitive, whole_words)

(***************************************************************************)
(* C4. Every message extract_outgoing_messages extracts was sent by the    *)
(* account owner.                                                          *)
(* The code: without personal_information.user_id the sender of the first  *)
(* message is taken for the owner, and a sender displayed under the        *)
(* owner's first name is taken for the owner.                              *)
(***************************************************************************)
C4_ExtractedAreOwners ==
    \A k \in DOMAIN all_messages : all_messages[k].sender = "owner"

(***************************************************************************)
(* More of what the histories say.                                         *)
(***************************************************************************)
\* The positions in trace of the events of the kinds `kinds`.
Positions(kinds) == {k \in DOMAIN trace : trace[k].ev \in kinds}

\* The pacing sleeps after the last attempt.
PacingSinceLastAttempt ==
    {k \in Positions({"sleep"}) :
        /\ \A a \in Positions({"attempt"}) : a < k
        /\ trace[k].res = "batch"}

\* Every chat was found and every fetch and delete succeeded.
AllSucceeded ==
    \A k \in DOMAIN trace :
       /\ trace[k].ev = "resolve" => trace[k].res = "found"
       /\ trace[k].ev = "fetch" => trace[k].res = "own"
       /\ trace[k].ev = "delete" => trace[k].res = "ack"

(***************************************************************************)
(* C11. Pacing: with a positive delay_between_batches, a pacing suspension *)
(* of that length precedes the first attempt of every batch but the first  *)
(* of the call, also when the batch is the first of the next chat, and     *)
(* none follows the last batch of the call.                                *)
(* The code: the suspension is made only when the same chat has a further  *)
(* batch (i + batch_size < len(message_ids)).                              *)
(***************************************************************************)
C11_PacingBetweenAllBatches ==
    /\ (pc = "attempt" /\ j = 1 /\ Len(batches) > 1 /\ delay_between_batches > 0) =>
          \E k \in PacingSinceLastAttempt : trace[k].n = delay_between_batches
    /\ pc = "returned" => PacingSinceLastAttempt = {}

(***************************************************************************)
(* C12. A live call on a new deleter in which every chat is found and      *)
(* every fetch and delete succeeds returns total_processed ==              *)
(* successfully_deleted == n, failed == skipped == 0 and no errors, n the  *)
(* number of candidates.                                                   *)
(***************************************************************************)
C12_LiveAllSuccess ==
    (/\ pc = "returned"
     /\ Len(history) > 0
     /\ ~dry_run
     /\ Before = InitStats
     /\ AllSucceeded)
    => stats = [total_processed      |-> Len(messages_df),
                successfully_deleted |-> Len(messages_df),
                failed               |-> 0,
                skipped              |-> 0,
                errors               |-> <<>>]

\* Three candidates in two chats were deleted.
C12_Witness ==
    /\ pc = "returned"
    /\ ~dry_run
    /\ AllSucceeded
    /\ Len(chat_groups) = 2
    /\ Len(messages_df) = 3
    /\ stats.successfully_deleted = 3

(***************************************************************************)
(* C13. Within one run no message is attempted, fetched or deleted twice:  *)
(* a message whose attempt failed, a rate-limit failure included, is not   *)
(* attempted again.                                                        *)
(***************************************************************************)
C13_NoReattempt ==
    \A kind \in {"attempt", "fetch", "delete"} :
       \A a, b \in Positions({kind}) :
          (trace[a].chat = trace[b].chat /\ trace[a].id = trace[b].id) => a = b

\* A rate-limited attempt failed, and the run went on to another message
\* and ended.
C13_Witness ==
    /\ pc \in {"returned", "exit"}
    /\ \E d \in Positions({"delete"}), a, b \in Positions({"attempt"}) :
          /\ trace[d].res = "flood"
          /\ d < a /\ a < b
          /\ trace[a].id = trace[d].id /\ trace[a].chat = trace[d].chat
          /\ trace[a].res = "Failed"

(***************************************************************************)
(* C14. A rate-limit signal with wait N, on the re-fetch or on the delete  *)
(* call of a live attempt, is followed by a suspension of N seconds before *)
(* any further remote call, and the attempt's outcome is the failure       *)
(* "Rate limited, waited Ns".                                              *)
(* The code: get_message_from_chat catches the signal of the re-fetch like *)
(* any exception and returns None; delete_message answers "Message not     *)
(* found" and nothing sleeps.                                              *)
(***************************************************************************)
C14_RateLimitSuspends ==
    \A k \in Positions({"fetch", "delete"}) :
       trace[k].res = "flood" =>
          /\ \E w \in Positions({"sleep"}) :
                /\ w > k
                /\ trace[w].res = "flood"
                /\ trace[w].n = trace[k].n
                /\ \A c \in Positions({"connect", "resolve", "fetch", "delete"}) :
                      ~(k < c /\ c < w)
          /\ entry # "api" =>
                \E e \in DOMAIN stats.errors :
                   stats.errors[e] =
                      [chat_name  |-> trace[k].chat[2],
                       message_id |-> trace[k].id,
                       error      |-> Detail("Rate limited, waited {wait_time}s",
                                             trace[k].n)]

(***************************************************************************)
(* C15. One bad message never aborts the run: whatever the remote service  *)
(* answers to the attempts, no exception leaves delete_message, the run    *)
(* ends, and when delete_messages_batch returns, every candidate of every  *)
(* chat that was found has exactly one attempt, whose outcome is Deleted,  *)
(* Skipped or Failed.                                                      *)
(***************************************************************************)
C15_EveryCandidateSettled ==
    /\ pc # "aborted"
    /\ \A k \in Positions({"attempt"}) :
          trace[k].res \in {"Deleted", "Skipped", "Failed"}
    /\ (pc = "returned" /\ Len(history) > 0) =>
          \A r \in Range(messages_df) :
             KeyOf(r) \in ResolvedKeys =>
                Cardinality({k \in Positions({"attempt"}) :
                   trace[k].chat = KeyOf(r) /\ trace[k].id = r.message_id}) = 1

\* C15: that holds in every state, and every run ends.
C15_NeverAborts ==
    /\ []C15_EveryCandidateSettled
    /\ <>(pc \in {"exit", "config_error"})

\* A run with two failing answers, one of them an exception that no special
\* clause handles, has returned with three candidates attempted.
C15_Witness ==
    /\ pc = "returned"
    /\ ~dry_run
    /\ fault_budget = 0
    /\ \E d \in Positions({"delete"}) : trace[d].res = "error"
    /\ Cardinality(Positions({"attempt"})) = 3

(***************************************************************************)
(* C16. When API_ID, API_HASH or PHONE_NUMBER is missing, the run ends     *)
(* with a configuration error before any remote contact: no connect,       *)
(* resolve, fetch or delete call is made.                                  *)
(***************************************************************************)
C16_ConfigErrorBeforeContact ==
    config # Credentials =>
       /\ pc \in {"start", "config_error"}
       /\ Positions({"connect", "resolve", "fetch", "delete"}) = {}
       /\ history = <<>>

\* The run ended with the configuration error, only PHONE_NUMBER missing.
C16_Witness ==
    /\ pc = "config_error"
    /\ config = {"API_ID", "API_HASH"}

(***************************************************************************)
(* C17. A selection that matches nothing ends the run of the export path   *)
(* in its normal end "No old messages found to delete", not in its error   *)
(* path.                                                                   *)
(* The code: with keywords of which none matches, keyword_matches is a     *)
(* frame without columns, keyword_matches['message_id'] raises KeyError    *)
(* and the run ends in "except Exception"; so does a run on an export      *)
(* without outgoing messages, at all_messages['date'].                     *)
(***************************************************************************)
C17_NothingSelectedIsNormal ==
    (ExportEnded /\ Handed = {}) => xpc = "nothing"

(***************************************************************************)
(* C20. Every attempt is journaled before and after: when the run has      *)
(* ended, the log holds for every attempted message a record naming it     *)
(* before its remote calls and a record naming it after the attempt.       *)
(* The code: delete_message and the loop of delete_messages_batch log the  *)
(* size of each batch and the exceptions; no record names the message of   *)
(* an attempt that succeeded or failed without an exception.               *)
(***************************************************************************)
\* The log records that name the message of the event at position k.
RecordsNaming(k) ==
    {r \in Positions({"log"}) :
        trace[r].chat = trace[k].chat /\ trace[r].id = trace[k].id}

C20_AttemptsJournaled ==
    pc \in {"returned", "exit"} =>
       \A k \in Positions({"attempt"}) :
          /\ \E r \in RecordsNaming(k) :
                \A c \in Positions({"fetch", "delete"}) :
                   (trace[c].chat = trace[k].chat /\ trace[c].id = trace[k].id)
                      => r < c
          /\ \E r \in RecordsNaming(k) : r > k

(***************************************************************************)
(* What the claims about matching mean by "the keyword occurs".            *)
(***************************************************************************)
\* Some keyword is a substring of t, the case compared as caseSensitive says.
OccursIn(kws, t, caseSensitive) ==
    \E k \in DOMAIN kws : \E p \in 1..(Len(t) + 1) :
       LiteralAt(kws[k], t, p, ~caseSensitive)

\* Some keyword occurs in t between two word boundaries.
OccursAsWord(kws, t, caseSensitive) ==
    \E k \in DOMAIN kws : \E p \in 1..(Len(t) + 1) :
       /\ LiteralAt(kws[k], t, p, ~caseSensitive)
       /\ Boundary(t, p)
       /\ Boundary(t, p + Len(kws[k]))

\* Both matchers have answered.
Matched == mpc = "done"

(***************************************************************************)
(* C18. In whole-word mode a matcher finds a text only where a keyword     *)
(* occurs in it between word boundaries; in partial mode it finds every    *)
(* text of which a keyword is a substring. Both matchers.                  *)
(* The code: the export matcher compiles the keyword as a regular          *)
(* expression, so "a.b" is found in "axb"; the API-only matcher lower-     *)
(* cases the text but, when case_sensitive, not the keyword, so a keyword  *)
(* with a capital is a substring of no text.                               *)
(***************************************************************************)
C18_WholeWordVsPartial ==
    Matched =>
       \A found \in {found_export, found_api} :
          /\ whole_words => (found => OccursAsWord(keywords, msg_text, case_sensitive))
          /\ ~whole_words => (OccursIn(keywords, msg_text, case_sensitive) => found)

(***************************************************************************)
(* C19. Case sensitivity, in both matchers: with case_sensitive false a    *)
(* keyword is found in a text that differs from it in letter case only;    *)
(* with case_sensitive true it is found where the text holds it in the     *)
(* same case and is not found in a text that holds it in another case      *)
(* only.                                                                   *)
(* Stated for keywords made of letters, which both matchers read as        *)
(* literal text.                                                           *)
(* The code: the API-only matcher lower-cases the text always and the      *)
(* keyword only when case_sensitive is false.                              *)
(***************************************************************************)
Occurs(kws, t, caseSensitive) ==
    IF whole_words THEN OccursAsWord(kws, t, caseSensitive)
                   ELSE OccursIn(kws, t, caseSensitive)

C19_CaseSensitivity ==
    (Matched /\ \A k \in DOMAIN keywords :
                   \A c \in DOMAIN keywords[k] : keywords[k][c] \notin {" ", "."}) =>
       \A found \in {found_export, found_api} :
          /\ ~case_sensitive => (Occurs(keywords, msg_text, FALSE) => found)
          /\ case_sensitive => (found <=> Occurs(keywords, msg_text, TRUE))

(***************************************************************************)
(* The end of a run: summary and error report.                             *)
(***************************************************************************)
Happened(e) == \E k \in DOMAIN trace : trace[k] = e

\* C21: at the end of every run whose deletion phase began a summary of the
\* counts has been printed, an error report has been written if and only if
\* the error ledger is non-empty, and so every run that counted a failure
\* has written an error report.
C21_SummaryAndReport ==
    LET failed == IF entry = "api" THEN failed_count ELSE stats.failed
        began == Positions({"resolve", "attempt"}) # {}
    IN (entry # "direct" /\ pc = "exit" /\ began) =>
          /\ Happened(Summary)
          /\ Happened(Report) <=> stats.errors # <<>>
          /\ failed > 0 => Happened(Report)

(***************************************************************************)
(* One live attempt: the fetch, the delete call, the classification.       *)
(***************************************************************************)
\* The "attempt" event that closes the attempt an event at position k is in.
ClosingAttempt(k) ==
    IF \E a \in Positions({"attempt"}) : a > k
    THEN CHOOSE a \in Positions({"attempt"}) :
            a > k /\ \A b \in Positions({"attempt"}) : b > k => a <= b
    ELSE 0

\* The event at position k belongs to the attempt closed at ClosingAttempt(k),
\* which failed, with this text in the error ledger.
FailedWith(k, text) ==
    LET a == ClosingAttempt(k)
    IN /\ a > k
       /\ trace[a].chat = trace[k].chat
       /\ trace[a].id = trace[k].id
       /\ trace[a].res = "Failed"
       /\ entry # "api" =>
             \E e \in DOMAIN stats.errors :
                /\ stats.errors[e].chat_name = trace[k].chat[2]
                /\ stats.errors[e].message_id = trace[k].id
                /\ stats.errors[e].error.text = text

\* C22: a delete call is issued only directly after a fetch of the same
\* message, in the same attempt, that returned a message of the owner; a
\* fetch that returns no message fails the attempt with "Message not found",
\* one that returns a message of somebody else with "Message is not from
\* you", and in both cases no delete call is issued in that attempt.
C22_DeleteOnlyAfterOwnFetch ==
    /\ \A d \in Positions({"delete"}) :
          /\ d > 1
          /\ trace[d - 1].ev = "fetch"
          /\ trace[d - 1].chat = trace[d].chat
          /\ trace[d - 1].id = trace[d].id
          /\ trace[d - 1].res = "own"
    /\ \A f \in Positions({"fetch"}) :
          trace[f].res # "own" =>
             /\ FailedWith(f, IF trace[f].res = "foreign"
                              THEN "Message is not from you"
                              ELSE "Message not found")
             /\ \A d \in Positions({"delete"}) : ~(f < d /\ d < ClosingAttempt(f))

C22_Witness ==
    /\ pc = "exit"
    /\ \E f \in Positions({"fetch"}) : trace[f].res = "foreign"
    /\ \E f \in Positions({"fetch"}) : trace[f].res = "missing"
    /\ \E d \in Positions({"delete"}) : trace[d].res = "ack"

\* C23: a delete call that is acknowledged makes the attempt Deleted; one
\* answered with a falsy value fails it with "Deletion failed", one refused
\* for missing admin rights with "Admin rights required", one forbidden with
\* "Message deletion forbidden", any other error with "Unexpected error";
\* none of these is followed by a sleep within the attempt.
C23_DeleteClassification ==
    \A d \in Positions({"delete"}) :
       trace[d].res # "flood" =>
          /\ IF trace[d].res = "ack"
             THEN LET a == ClosingAttempt(d)
                  IN /\ a > d
                     /\ trace[a].chat = trace[d].chat
                     /\ trace[a].id = trace[d].id
                     /\ trace[a].res = "Deleted"
             ELSE FailedWith(d, CASE trace[d].res = "nack" -> "Deletion failed"
                                  [] trace[d].res = "admin" -> "Admin rights required"
                                  [] trace[d].res = "forbidden" ->
                                        "Message deletion forbidden"
                                  [] OTHER -> "Unexpected error: {e}")
          /\ \A w \in Positions({"sleep"}) : ~(d < w /\ w < ClosingAttempt(d))

C23_Witness ==
    /\ pc = "exit"
    /\ entry # "api"
    /\ \E d \in Positions({"delete"}) : trace[d].res = "forbidden"
    /\ \E d \in Positions({"delete"}) : trace[d].res \in {"nack", "admin", "error"}
    /\ \E d \in Positions({"delete"}) : trace[d].res = "ack"

(***************************************************************************)
(* The order of chats in delete_messages_batch.                            *)
(***************************************************************************)
\* C24: in the attempts of a run of delete_messages_batch all attempts of
\* one chat id are contiguous, and every chat id is resolved at most once
\* and, for a chat with attempts, before its first attempt.
C24_ChatsSequential ==
    entry # "api" =>
       /\ \A a, b, c \in Positions({"attempt"}) :
             (a < b /\ b < c /\ trace[a].chat[1] = trace[c].chat[1])
                => trace[b].chat[1] = trace[a].chat[1]
       /\ \A q, r \in Positions({"resolve"}) :
             trace[q].chat[1] = trace[r].chat[1] => q = r
       /\ \A a \in Positions({"attempt"}) :
             \E r \in Positions({"resolve"}) :
                /\ r < a
                /\ trace[r].chat[1] = trace[a].chat[1]
                /\ trace[r].res = "found"

C24_Witness ==
    /\ entry # "api"
    /\ pc = "exit"
    /\ Len(messages_df) = 3
    /\ KeyOf(messages_df[1]) = KeyOf(messages_df[3])
    /\ KeyOf(messages_df[1]) # KeyOf(messages_df[2])
    /\ Cardinality(Positions({"attempt"})) = 3

(***************************************************************************)
(* Exceptions during chat resolution.                                      *)
(***************************************************************************)
\* C29: no exception leaves find_chat_by_name_or_id: a lookup that raises,
\* a rate limit included, is logged and answered with None, the chat is
\* reported not found without a sleep, all its candidates are counted as
\* failed, and the chats that are found are still attempted in full.
C29_ResolutionNeverRaises ==
    /\ pc # "aborted"
    /\ \A g \in Positions({"get_entity"}) :
          trace[g].res \in {"flood", "error"} =>
             /\ g + 3 \in DOMAIN trace
             /\ trace[g + 1].ev = "log"
             /\ trace[g + 2].ev = "resolve"
             /\ trace[g + 2].res = "None"
             /\ trace[g + 3].ev = "log"
             /\ g + 4 \in DOMAIN trace => trace[g + 4].ev # "sleep"
    /\ (entry # "api" /\ pc \in {"returned", "exit"}
           /\ Positions({"resolve", "attempt"}) # {}) =>
          /\ stats.failed =
                Len(RowsOfKeys(messages_df, NotFoundKeys))
                + Len(SelectSeq(EventsOf({"attempt"}), LAMBDA e : e.res = "Failed"))
          /\ AttemptPairs =
                ExpectedAttempts(RowsOfKeys(messages_df,
                   {KeyOf(messages_df[k]) : k \in DOMAIN messages_df} \ NotFoundKeys))

C29_Witness ==
    /\ pc = "exit"
    /\ \E g \in Positions({"get_entity"}), a \in Positions({"attempt"}) :
          /\ trace[g].res = "flood"
          /\ g < a

(***************************************************************************)
(* The connection is closed.                                               *)
(***************************************************************************)
\* C30: once connect() has succeeded disconnect() is never called twice,
\* has been called exactly once when the run has ended, and is eventually
\* called, whether the deletion phase completes, returns early or raises.
C30_DisconnectExactlyOnce ==
    LET Connected == Happened(Connect("ok"))
        Disconnects == Cardinality(Positions({"disconnect"}))
    IN /\ [](Connected => Disconnects <= 1)
       /\ []((Connected /\ pc \in {"exit", "aborted"}) => Disconnects = 1)
       /\ (Connected ~> (Disconnects = 1))

C30_Witness ==
    /\ entry = "api"
    /\ pc = "exit"
    /\ Happened(Connect("ok"))
    /\ Happened(Event("get_dialogs", NoChat, 0, "error", 0))
    /\ Cardinality(Positions({"disconnect"})) = 1

(***************************************************************************)
(* Chat resolution by the shape of the identifier.                         *)
(***************************************************************************)
\* The dialogs with a name that holds the identifier, whatever the case of
\* the letters.
MatchingDialogs ==
    {d \in DOMAIN dialogs :
        /\ dialogs[d] # <<>>
        /\ \E off \in 0..(Len(dialogs[d]) - Len(chat_identifier)) :
              \A k \in 1..Len(chat_identifier) :
                 Lower(dialogs[d][off + k]) = Lower(chat_identifier[k])}

\* C25: a numeric (possibly negative) identifier and an @handle are resolved
\* by one direct lookup and no listing of the dialogs; any other identifier
\* by one listing of the dialogs and no direct lookup, the result being the
\* first listed dialog whose name holds the identifier case-insensitively,
\* and not-found when no dialog matches.
C25_ResolutionByShape ==
    LET str == chat_identifier
        digits == {"0", "1", "2", "3", "4", "5", "6", "7", "8", "9"}
        NumericShape ==
           \/ Len(str) >= 1 /\ \A k \in 1..Len(str) : str[k] \in digits
           \/ Len(str) >= 2 /\ str[1] = "-" /\ \A k \in 2..Len(str) : str[k] \in digits
        HandleShape == Len(str) >= 1 /\ str[1] = "@"
    IN rpc = "returned" =>
       IF NumericShape \/ HandleShape
       THEN /\ Cardinality(Positions({"get_entity"})) = 1
            /\ Positions({"get_dialogs"}) = {}
            /\ found_chat \in {[kind |-> "entity", at |-> 0], None}
            /\ found_chat.kind = "entity" <=>
                  \E g \in Positions({"get_entity"}) : trace[g].res = "entity"
       ELSE /\ Cardinality(Positions({"get_dialogs"})) = 1
            /\ Positions({"get_entity"}) = {}
            /\ (\E g \in Positions({"get_dialogs"}) : trace[g].res = "ok") =>
                  IF MatchingDialogs = {}
                  THEN found_chat = None
                  ELSE /\ found_chat.kind = "dialog"
                       /\ found_chat.at \in MatchingDialogs
                       /\ \A k \in MatchingDialogs : found_chat.at <= k

C25_Witness ==
    /\ rpc = "returned"
    /\ chat_identifier = <<"a">>
    /\ dialogs = <<<<"b", "A">>, <<"a">>>>
    /\ found_chat = [kind |-> "dialog", at |-> 1]

(***************************************************************************)
(* The matched keywords of a message.                                      *)
(***************************************************************************)
\* C26: the matched keywords reported for a matching message are the
\* keywords of the input list that match its text, in input order, each once
\* even when the input list repeats it.
C26_MatchedKeywordsOnce ==
    LET hits == SelectSeq(keywords, LAMBDA kw :
                   KeywordSearch(kw, msg_text, case_sensitive, whole_words))
        first == SelectSeq([k \in DOMAIN hits |-> [at |-> k, str |-> hits[k]]],
                           LAMBDA e : \A h \in 1..(e.at - 1) : hits[h] # e.str)
    IN (mpc \in {"export", "done"} /\ found_export) =>
          matched_keywords = Join([k \in DOMAIN first |-> first[k].str])

(***************************************************************************)
(* The cutoff of a run.                                                    *)
(***************************************************************************)
CutoffRecords(run, op) ==
    {k \in DOMAIN cutoffs : cutoffs[k].run = run /\ cutoffs[k].op = op}

\* C27: each run computes its cutoff once, before its first comparison, and
\* compares every date with that value, however much time has passed.
C27_CutoffComputedOnce ==
    \A run \in {"export", "api"} :
       /\ Cardinality(CutoffRecords(run, "set")) <= 1
       /\ \A c \in CutoffRecords(run, "cmp") :
             \E st \in CutoffRecords(run, "set") :
                st < c /\ cutoffs[c].value = cutoffs[st].value

C27_Witness ==
    /\ apc = "selected"
    /\ \E st \in CutoffRecords("api", "set"), c \in CutoffRecords("api", "cmp") :
          cutoffs[c].at > cutoffs[st].at
    /\ CutoffRecords("export", "cmp") # {}

(***************************************************************************)
(* The two selections on the same messages.                                *)
(***************************************************************************)
\* C28: with the same cutoff, the export run and the API-only run select
\* the same messages of the account.
C28_SelectorsAgree ==
    (ExportEnded /\ apc = "selected" /\ api_cutoff = cutoff_time) =>
       {row.idx : row \in Handed} =
          {messages_to_delete[k].idx : k \in DOMAIN messages_to_delete}

(***************************************************************************)
(* The deletion loop of api_only_delete_messages.                          *)
(***************************************************************************)
\* C31: in an API-only run whose search has completed, the attempts made so
\* far are the selected messages in selection order, each once, and when
\* the run has ended every selected message has been attempted and
\* deleted_count + failed_count is the number of selected messages,
\* whatever the remote service answered.
C31_ApiAttemptsAll ==
    (entry = "api" /\ Happened(Event("get_dialogs", NoChat, 0, "ok", 0))) =>
       /\ Len(AttemptPairs) <= Len(candidates)
       /\ \A k \in DOMAIN AttemptPairs :
             AttemptPairs[k] = <<KeyOf(candidates[k]), candidates[k].message_id>>
       /\ deleted_count + failed_count = Len(AttemptPairs)
       /\ pc = "exit" => Len(AttemptPairs) = Len(candidates)

C31_Witness ==
    /\ entry = "api"
    /\ pc = "exit"
    /\ Len(candidates) = 3
    /\ Len(AttemptPairs) = 3
    /\ deleted_count = 2
    /\ failed_count = 1

(***************************************************************************)
(* self.stats over the calls made on one deleter.                          *)
(***************************************************************************)
\* C32: over the calls of delete_messages_batch on one deleter no counter
\* of stats ever decreases and the error ledger only grows at its end, and
\* a call with no candidates returns at once with stats unchanged and
\* nothing but a log record in its trace.
C32_StatsCumulative ==
    [][/\ stats'.total_processed >= stats.total_processed
       /\ stats'.successfully_deleted >= stats.successfully_deleted
       /\ stats'.failed >= stats.failed
       /\ stats'.skipped >= stats.skipped
       /\ Len(stats'.errors) >= Len(stats.errors)
       /\ SubSeq(stats'.errors, 1, Len(stats.errors)) = stats.errors
       /\ (pc = "enter" /\ messages_df = <<>>) =>
             /\ pc' = "returned"
             /\ stats' = stats
             /\ \A k \in DOMAIN trace' : trace'[k].ev = "log"]_vars

C32_Witness ==
    /\ pc = "returned"
    /\ Len(history) = 2
    /\ history[1].df # <<>>
    /\ history[2].df = <<>>
    /\ stats.errors # <<>>
    /\ stats.skipped + stats.successfully_deleted > 0
    /\ stats = history[2].before
    /\ \A k \in DOMAIN trace : trace[k].ev = "log"

====
